---- MODULE Spec2Model ----
(***************************************************************************)
(* Video compression service (app/main.py, app/ffmpeg_handler.py,          *)
(* app/utils.py) as a state machine.                                       *)
(*                                                                         *)
(* Every request to POST /compress-mp4 is one coroutine of a single        *)
(* asyncio event loop.  `loop` names the coroutine that currently runs;    *)
(* a coroutine gives the loop up only at an await that really suspends     *)
(* (UploadFile.read and the aiofiles calls).  compress_video contains no   *)
(* such await: its subprocess.run calls block the loop.                    *)
(*                                                                         *)
(* Numbers: target_size_mb and the probed duration are Python floats.      *)
(* They are modelled as exact rationals [num, den]; binary rounding of     *)
(* the double division is not modelled.                                    *)
(***************************************************************************)
EXTENDS Integers, Sequences, FiniteSets, TLC

\* ------------------------------------------------------------------ bounds
NumRequests == 2        \* requests in flight in the concurrent specification
MaxUploadLen == 1       \* longest uploaded body, in bytes
MaxTargetNum == 8       \* largest |numerator| of target_size_mb
MaxDurationNum == 60    \* largest numerator of the probed duration
MaxHealth == 2          \* GET /health requests answered in a run
MaxDim == 9             \* source widths and heights are 1..MaxDim pixels

Requests == 1..NumRequests
PlanRequests == {1}

\* ------------------------------------------------------------- input sets
Byte == {7}
ConcUploads == {<<>>, <<7>>}
PlanUploads == UNION {[1..n -> Byte] : n \in 0..MaxUploadLen}

SUPPORTED_FORMATS ==
    {"video/mp4", "video/quicktime", "video/x-msvideo", "video/x-matroska",
     "video/webm", "video/3gpp", "video/x-ms-wmv", "video/x-flv",
     "video/mpeg", "video/x-m4v"}

ContentTypes == {"video/mp4", "text/plain"}

Rat(n, d) == [num |-> n, den |-> d]

\* target_size_mb values: the concurrent specification keeps them few, the
\* planning specification sweeps them.
ConcTargets == {Rat(8, 1)}
ConcAspects == {TRUE}
PlanTargets ==
    {Rat(n, d) : n \in (0 - MaxTargetNum)..MaxTargetNum, d \in {1, 10, 10000000}}

\* what float(result.stdout.strip()) can yield; den = 0 stands for output
\* that float() rejects (ValueError)
NotANumber == Rat(0, 0)
ConcDurations == {Rat(0, 1), Rat(60, 1)}
PlanDurations ==
    {Rat(n, d) : n \in 0..MaxDurationNum, d \in {1, 8}} \union {NotANumber}

\* ------------------------------------------------------------ file system
Cwd == -1               \* the server's working directory, as a directory key
Unbound == 0            \* a local name that was never assigned

Path(d, n) == [dir |-> d, name |-> n]
NoPath == Path(Unbound, "")
FileNames == {"input.mp4", "output.mp4", "NUL", "ffmpeg2pass-0.log"}
JobIds == 1..NumRequests
AllPaths == {Path(d, n) : d \in JobIds \union {Cwd}, n \in FileNames}

NoFile == [exists |-> FALSE, bytes |-> <<>>, writer |-> 0]
File(b, w) == [exists |-> TRUE, bytes |-> b, writer |-> w]

\* ------------------------------------------------------------- exceptions
\* cause: the str(e) of the exception an HTTPException was built from, which
\* the handler appends to the detail
NoExc == [type |-> "", status |-> 0, detail |-> "", cause |-> ""]
Exc(t, d) == [type |-> t, status |-> 0, detail |-> d, cause |-> ""]
HTTPException(s, d, c) ==
    [type |-> "HTTPException", status |-> s, detail |-> d, cause |-> c]
CancelledError == Exc("CancelledError", "")

NoResponse == [kind |-> "none", status |-> 0, detail |-> "", cause |-> "",
               body |-> <<>>, media_type |-> ""]

VARIABLES
    frame,      \* per request: the locals of compress_video_endpoint
    loop,       \* the request whose coroutine runs on the event loop, or 0
    dirs,       \* the job directories that exist under TEMP_DIR (utils.py 6)
    files,      \* path -> file
    uuids,      \* how many job ids uuid.uuid4() has handed out
    response,   \* per request: what the caller received
    calls,      \* per request: the subprocesses it ran, in order
    touched,    \* per request: the directories its file operations named
    logged,     \* per request: the cleanup errors written to the log
    healthy     \* how many GET /health requests have been answered

vars ==
    <<frame, loop, dirs, files, uuids, response, calls, touched, logged,
      healthy>>

Free == 0

NoFrame ==
    [pc |-> "idle", content_type |-> "", upload |-> <<>>,
     target_size_mb |-> Rat(0, 1), maintain_aspect_ratio |-> FALSE,
     job_id |-> Unbound, content |-> <<>>, input_path |-> NoPath,
     duration |-> Rat(0, 1), target_bitrate |-> 0, output_path |-> NoPath,
     compressed_content |-> <<>>, result |-> NoResponse, exc |-> NoExc]

Init ==
    /\ frame = [r \in Requests |-> NoFrame]
    /\ loop = Free
    /\ dirs = {}
    /\ files = [p \in AllPaths |-> NoFile]
    /\ uuids = 0
    /\ response = [r \in Requests |-> NoResponse]
    /\ calls = [r \in Requests |-> <<>>]
    /\ touched = [r \in Requests |-> {}]
    /\ logged = [r \in Requests |-> <<>>]
    /\ healthy = 0

\* ---------------------------------------------------------------- helpers
Me(r) == frame[r]

\* the coroutine continues without giving up the loop
Step(r, f) ==
    /\ frame' = [frame EXCEPT ![r] = f]
    /\ loop' = r

\* the coroutine suspends at an await
Suspend(r, f) ==
    /\ frame' = [frame EXCEPT ![r] = f]
    /\ loop' = Free

Touch(r, d) == touched' = [touched EXCEPT ![r] = @ \union {d}]

\* mutant: the last clause answers without the str(e) of what it caught
InnerExceptBare(e) ==
    IF e.type = "CancelledError" THEN e
    ELSE IF e.type = "FileNotFoundError"
        THEN HTTPException(500, "File operation failed", e.detail)
    ELSE IF e.type = "PermissionError"
        THEN HTTPException(500, "Permission denied", e.detail)
    ELSE HTTPException(500, "Video processing failed", "")

\* main.py 148-156: the except clauses of the inner try.  HTTPException is an
\* Exception, so the last clause rewrites it too; CancelledError is a
\* BaseException and passes through.
InnerExcept(e) ==
    IF e.type = "CancelledError" THEN e
    ELSE IF e.type = "FileNotFoundError"
        THEN HTTPException(500, "File operation failed", e.detail)
    ELSE IF e.type = "PermissionError"
        THEN HTTPException(500, "Permission denied", e.detail)
    ELSE HTTPException(500, "Video processing failed", e.detail)

\* an exception raised inside the inner try (main.py 111-156)
Raise(r, e) ==
    Step(r, [Me(r) EXCEPT !.exc = InnerExcept(e), !.pc = "finally"])

\* mutant: the job id generated once, at import, and shared by all requests
uuid4_once == CHOOSE j \in JobIds : \A k \in JobIds : j <= k

\* main.py 108
uuid4 == uuids + 1

\* ---------------------------------------------------------------- actions
\* a POST /compress-mp4 arrives with its form fields (main.py 91-95);
\* requests are numbered in the order they arrive
Receive(r, Uploads, Targets, Aspects) ==
    /\ Me(r).pc = "idle"
    /\ \A q \in Requests : q < r => Me(q).pc # "idle"
    /\ \E ct \in ContentTypes, u \in Uploads, t \in Targets, a \in Aspects :
          frame' = [frame EXCEPT ![r] =
                      [@ EXCEPT !.pc = "start", !.content_type = ct,
                                !.upload = u, !.target_size_mb = t,
                                !.maintain_aspect_ratio = a]]
    /\ UNCHANGED <<healthy, loop, dirs, files, uuids, response, calls, touched, logged>>

\* main.py 96-113: the format check, the job id, up to `await video.read()`
CheckFormat(r) ==
    /\ Me(r).pc = "start"
    /\ loop = Free
    /\ IF Me(r).content_type \notin SUPPORTED_FORMATS
       THEN /\ Step(r, [Me(r) EXCEPT
                          !.exc = HTTPException(400, "Unsupported file type", ""),
                          !.pc = "finally"])
            /\ UNCHANGED uuids
       ELSE /\ Suspend(r, [Me(r) EXCEPT !.job_id = uuid4, !.pc = "read_upload"])
            /\ uuids' = uuids + 1
    /\ UNCHANGED <<healthy, dirs, files, response, calls, touched, logged>>

\* main.py 113-120: video.read() returns; empty content is refused
ReadUpload(r) ==
    /\ Me(r).pc = "read_upload"
    /\ loop = Free
    /\ IF Len(Me(r).upload) = 0
       THEN Raise(r, HTTPException(400, "No file content provided", ""))
       ELSE Step(r, [Me(r) EXCEPT !.content = Me(r).upload, !.pc = "mkdir"])
    /\ UNCHANGED <<healthy, dirs, files, uuids, response, calls, touched, logged>>

\* --------------------------------------------------- utils.py save_blob_file
\* utils.py 11-16: job_dir.mkdir(parents=True, exist_ok=True), then the
\* coroutine suspends in aiofiles.open
SaveBlobMkdir(r) ==
    /\ Me(r).pc = "mkdir"
    /\ loop = r
    /\ \/ /\ dirs' = dirs \union {Me(r).job_id}
          /\ Suspend(r, [Me(r) EXCEPT !.pc = "open_input"])
       \/ /\ Raise(r, Exc("PermissionError", "mkdir"))
          /\ UNCHANGED dirs
    /\ Touch(r, Me(r).job_id)
    /\ UNCHANGED <<healthy, files, uuids, response, calls, logged>>

\* utils.py 15-16: aiofiles.open(file_path, "wb") creates or truncates the file
SaveBlobOpen(r) ==
    LET p == Path(Me(r).job_id, "input.mp4") IN
    /\ Me(r).pc = "open_input"
    /\ loop = Free
    /\ IF Me(r).job_id \notin dirs
       THEN /\ Raise(r, Exc("FileNotFoundError", "open"))
            /\ UNCHANGED files
       ELSE \/ /\ files' = [files EXCEPT ![p] = File(<<>>, r)]
               /\ Suspend(r, [Me(r) EXCEPT !.pc = "write_input"])
            \/ /\ Raise(r, Exc("OSError", "open"))
               /\ UNCHANGED files
    /\ Touch(r, p.dir)
    /\ UNCHANGED <<healthy, dirs, uuids, response, calls, logged>>

\* utils.py 17-19 and main.py 120-121: buffer.write(content), the file is
\* closed and its path returned
SaveBlobWrite(r) ==
    LET p == Path(Me(r).job_id, "input.mp4") IN
    /\ Me(r).pc = "write_input"
    /\ loop = Free
    /\ \/ /\ files' = [files EXCEPT ![p] = File(Me(r).content, r)]
          /\ Step(r, [Me(r) EXCEPT !.input_path = p, !.pc = "check_ffmpeg"])
       \/ /\ Raise(r, Exc("OSError", "write"))
          /\ UNCHANGED files
    /\ Touch(r, p.dir)
    /\ UNCHANGED <<healthy, dirs, uuids, response, calls, logged>>

\* ------------------------------------------------------------ subprocesses
NoFloat == [neg |-> FALSE, whole |-> 0, tenths |-> 0]

Call(prog, pass, exit) ==
    [prog |-> prog, pass |-> pass, exit |-> exit, input |-> NoPath,
     b_v |-> 0, maxrate |-> NoFloat, bufsize |-> 0, vf |-> "",
     audio |-> FALSE, out |-> NoPath, stats |-> 0, show_entries |-> ""]

Ran(r, c) == calls' = [calls EXCEPT ![r] = Append(@, c)]

ExitCodes == {0, 1}

\* main.py 123-125: os.system("ffmpeg -version")
CheckFfmpeg(r) ==
    /\ Me(r).pc = "check_ffmpeg"
    /\ loop = r
    /\ \E x \in ExitCodes :
          /\ Ran(r, Call("ffmpeg -version", 0, x))
          /\ IF x = 0
             THEN Step(r, [Me(r) EXCEPT !.pc = "get_video_info"])
             ELSE Raise(r, HTTPException(500, "FFmpeg is not installed", ""))
    /\ UNCHANGED <<healthy, dirs, files, uuids, response, touched, logged>>

\* mutant: the exit status of the stream probe is not checked
GetVideoInfoUnchecked(r) ==
    /\ Me(r).pc = "get_video_info"
    /\ loop = r
    /\ \E x \in ExitCodes :
          /\ Ran(r, [Call("ffprobe", 0, x) EXCEPT
                        !.input = Me(r).input_path,
                        !.show_entries = "stream,format"])
          /\ Step(r, [Me(r) EXCEPT !.pc = "get_video_duration"])
    /\ Touch(r, Me(r).input_path.dir)
    /\ UNCHANGED <<healthy, dirs, files, uuids, response, logged>>

\* ffmpeg_handler.py 9-31, 84: ffprobe for the stream information
GetVideoInfo(r) ==
    /\ Me(r).pc = "get_video_info"
    /\ loop = r
    /\ \E x \in ExitCodes :
          /\ Ran(r, [Call("ffprobe", 0, x) EXCEPT
                        !.input = Me(r).input_path,
                        !.show_entries = "stream,format"])
          /\ IF x = 0
             THEN Step(r, [Me(r) EXCEPT !.pc = "get_video_duration"])
             ELSE Raise(r, Exc("RuntimeError", "Failed to get video information"))
    /\ Touch(r, Me(r).input_path.dir)
    /\ UNCHANGED <<healthy, dirs, files, uuids, response, logged>>

\* ffmpeg_handler.py 33-53, 88: ffprobe for the duration, parsed by float()
GetVideoDuration(r, Durations) ==
    /\ Me(r).pc = "get_video_duration"
    /\ loop = r
    /\ \E x \in ExitCodes :
          /\ Ran(r, [Call("ffprobe", 0, x) EXCEPT
                        !.input = Me(r).input_path,
                        !.show_entries = "format=duration"])
          /\ IF x = 0
             THEN \E d \in Durations :
                     IF d = NotANumber
                     THEN Raise(r, Exc("ValueError", "could not convert string to float"))
                     ELSE Step(r, [Me(r) EXCEPT !.duration = d, !.pc = "plan"])
             ELSE Raise(r, Exc("RuntimeError", "Failed to get video duration"))
    /\ Touch(r, Me(r).input_path.dir)
    /\ UNCHANGED <<healthy, dirs, files, uuids, response, logged>>

\* ------------------------------------------------- ffmpeg_handler.py, plan
\* mutant: round() in place of int()
RoundOf(a, b) == (2 * a + b) \div (2 * b)

\* Python's int(): truncation toward zero (b > 0)
IntOf(a, b) == IF a >= 0 THEN a \div b ELSE 0 - ((0 - a) \div b)

\* mutant: decimal megabytes
target_size_bits_decimal(t) == Rat(t.num * 8 * 1000 * 1000, t.den)

\* ffmpeg_handler.py 89: target_size_mb * 8 * 1024 * 1024
target_size_bits(t) == Rat(t.num * 8 * 1024 * 1024, t.den)

\* ffmpeg_handler.py 90: int(target_size_bits / duration), duration # 0
target_bitrate(t, d) ==
    IntOf(target_size_bits(t).num * d.den, target_size_bits(t).den * d.num)

\* mutant: the maximum rate cut to an int
maxrate_int(b) ==
    LET h == 3 * b
        a == IF h < 0 THEN 0 - h ELSE h
    IN  [neg |-> h < 0, whole |-> a \div 2, tenths |-> 0]

\* ffmpeg_handler.py 103, 129: f"{target_bitrate * 1.5}", a float: the
\* product has the fraction .0 or .5 and is printed with it
maxrate(b) ==
    LET h == 3 * b
        a == IF h < 0 THEN 0 - h ELSE h
    IN  [neg |-> h < 0, whole |-> a \div 2,
         tenths |-> IF a % 2 = 1 THEN 5 ELSE 0]

\* ffmpeg_handler.py 104, 130: f"{target_bitrate * 2}", an int
bufsize(b) == b * 2

\* mutant: the name of the directory above the workspace
GrandParentName(p) == Cwd

\* ffmpeg_handler.py 92: Path(input_path).parent.name
ParentName(p) == p.dir

\* utils.py 32-35
get_video_output_path(input_path, job_id) == Path(job_id, "output.mp4")

\* ffmpeg_handler.py 109-110, 138-139
ScaleFilter(maintain_aspect_ratio) ==
    IF maintain_aspect_ratio THEN "scale=trunc(iw/2)*2:trunc(ih/2)*2" ELSE ""

\* what ffmpeg makes of the -vf argument for a w x h source: trunc(iw/2)*2
\* and trunc(ih/2)*2 with the filter, the source size without one
Scaled(vf, w, h) ==
    IF vf = "scale=trunc(iw/2)*2:trunc(ih/2)*2"
    THEN <<IntOf(w, 2) * 2, IntOf(h, 2) * 2>>
    ELSE <<w, h>>

\* ffmpeg_handler.py 87-93: the bitrate and the output path
PlanBitrate(r) ==
    /\ Me(r).pc = "plan"
    /\ loop = r
    /\ IF Me(r).duration.num = 0
       THEN Raise(r, Exc("ZeroDivisionError", "float division by zero"))
       ELSE Step(r, [Me(r) EXCEPT
                       !.target_bitrate =
                           target_bitrate(Me(r).target_size_mb, Me(r).duration),
                       !.output_path =
                           get_video_output_path(Me(r).input_path,
                                                 ParentName(Me(r).input_path)),
                       !.pc = "first_pass"])
    /\ UNCHANGED <<healthy, dirs, files, uuids, response, calls, touched, logged>>

\* what the encoder makes of an input, and what it leaves behind when it dies
Encode(b) == <<102>> \o b \o <<109>>
Stats(b) == <<115>> \o b
Prefixes(s) == {SubSeq(s, 1, k) : k \in 0..(Len(s) - 1)}

NullSink == Path(Cwd, "NUL")
PassLog == Path(Cwd, "ffmpeg2pass-0.log")

\* ffmpeg_handler.py 96-107: base_cmd
base_cmd(f) ==
    [Call("ffmpeg", 1, 0) EXCEPT
        !.input = f.input_path,
        !.b_v = f.target_bitrate,
        !.maxrate = maxrate(f.target_bitrate),
        !.bufsize = bufsize(f.target_bitrate),
        !.vf = ScaleFilter(f.maintain_aspect_ratio)]

\* mutant: the second pass is built without the -vf branch
second_pass_no_filter(f) ==
    [Call("ffmpeg", 2, 0) EXCEPT
        !.input = f.input_path,
        !.b_v = f.target_bitrate,
        !.maxrate = maxrate(f.target_bitrate),
        !.bufsize = bufsize(f.target_bitrate),
        !.audio = TRUE,
        !.out = f.output_path]

\* ffmpeg_handler.py 122-141: second_pass
second_pass(f) ==
    [Call("ffmpeg", 2, 0) EXCEPT
        !.input = f.input_path,
        !.b_v = f.target_bitrate,
        !.maxrate = maxrate(f.target_bitrate),
        !.bufsize = bufsize(f.target_bitrate),
        !.audio = TRUE,
        !.vf = ScaleFilter(f.maintain_aspect_ratio),
        !.out = f.output_path]

\* mutant: the exit status of the first pass is not checked
FirstPassUnchecked(r) ==
    LET cmd == [base_cmd(Me(r)) EXCEPT !.out = NullSink]
        src == files[Me(r).input_path].bytes
    IN
    /\ Me(r).pc = "first_pass"
    /\ loop = r
    /\ \E x \in ExitCodes : Ran(r, [cmd EXCEPT !.exit = x])
    /\ files' = [files EXCEPT ![NullSink] = File(<<>>, r),
                              ![PassLog] = File(Stats(src), r)]
    /\ Step(r, [Me(r) EXCEPT !.pc = "second_pass"])
    /\ touched' = [touched EXCEPT ![r] = @ \union {Me(r).input_path.dir, Cwd}]
    /\ UNCHANGED <<healthy, dirs, uuids, response, logged>>

\* mutant: the first pass is awaited, the coroutine yields the event loop
\* until it is resumed for the second pass
FirstPassYield(r) ==
    LET cmd == [base_cmd(Me(r)) EXCEPT !.out = NullSink]
        src == files[Me(r).input_path].bytes
    IN
    \/ /\ Me(r).pc = "first_pass"
       /\ loop = r
       /\ \/ /\ Ran(r, cmd)
             /\ files' = [files EXCEPT ![NullSink] = File(<<>>, r),
                                       ![PassLog] = File(Stats(src), r)]
             /\ Suspend(r, [Me(r) EXCEPT !.pc = "first_pass_done"])
          \/ /\ Ran(r, [cmd EXCEPT !.exit = 1])
             /\ UNCHANGED files
             /\ Raise(r, Exc("RuntimeError", "First pass encoding failed"))
       /\ touched' = [touched EXCEPT ![r] = @ \union {Me(r).input_path.dir, Cwd}]
       /\ UNCHANGED <<healthy, dirs, uuids, response, logged>>
    \/ /\ Me(r).pc = "first_pass_done"
       /\ loop = Free
       /\ Step(r, [Me(r) EXCEPT !.pc = "second_pass"])
       /\ UNCHANGED <<healthy, dirs, files, uuids, response, calls, touched,
                      logged>>

\* ffmpeg_handler.py 112-119: first pass; the sink "NUL" and the pass log are
\* relative names, so they land in the working directory
FirstPass(r) ==
    LET cmd == [base_cmd(Me(r)) EXCEPT !.out = NullSink]
        src == files[Me(r).input_path].bytes
    IN
    /\ Me(r).pc = "first_pass"
    /\ loop = r
    /\ \/ /\ Ran(r, cmd)
          /\ files' = [files EXCEPT ![NullSink] = File(<<>>, r),
                                    ![PassLog] = File(Stats(src), r)]
          /\ Step(r, [Me(r) EXCEPT !.pc = "second_pass"])
       \/ /\ Ran(r, [cmd EXCEPT !.exit = 1])
          /\ UNCHANGED files
          /\ Raise(r, Exc("RuntimeError", "First pass encoding failed"))
    /\ touched' = [touched EXCEPT ![r] = @ \union {Me(r).input_path.dir, Cwd}]
    /\ UNCHANGED <<healthy, dirs, uuids, response, logged>>

\* mutant: the exit status of the second pass is not checked
SecondPassUnchecked(r) ==
    LET cmd == [second_pass(Me(r)) EXCEPT !.stats = files[PassLog].writer]
        out == Me(r).output_path
        full == Encode(files[Me(r).input_path].bytes)
    IN
    /\ Me(r).pc = "second_pass"
    /\ loop = r
    /\ \/ /\ Ran(r, cmd)
          /\ files' = [files EXCEPT ![out] = File(full, r)]
       \/ /\ Ran(r, [cmd EXCEPT !.exit = 1])
          /\ \E part \in Prefixes(full) :
                files' = [files EXCEPT ![out] = File(part, r)]
    /\ Suspend(r, [Me(r) EXCEPT !.pc = "open_output"])
    /\ touched' = [touched EXCEPT
                     ![r] = @ \union {Me(r).input_path.dir, out.dir, Cwd}]
    /\ UNCHANGED <<healthy, dirs, uuids, response, logged>>

\* ffmpeg_handler.py 143-150 and utils.py 23: second pass, then the coroutine
\* suspends in read_file_as_bytes
SecondPass(r) ==
    LET cmd == [second_pass(Me(r)) EXCEPT !.stats = files[PassLog].writer]
        out == Me(r).output_path
        full == Encode(files[Me(r).input_path].bytes)
    IN
    /\ Me(r).pc = "second_pass"
    /\ loop = r
    /\ \/ /\ Ran(r, cmd)
          /\ files' = [files EXCEPT ![out] = File(full, r)]
          /\ Suspend(r, [Me(r) EXCEPT !.pc = "open_output"])
       \/ /\ Ran(r, [cmd EXCEPT !.exit = 1])
          /\ \/ UNCHANGED files
             \/ \E part \in Prefixes(full) :
                   files' = [files EXCEPT ![out] = File(part, r)]
          /\ Raise(r, Exc("RuntimeError", "Second pass encoding failed"))
    /\ touched' = [touched EXCEPT
                     ![r] = @ \union {Me(r).input_path.dir, out.dir, Cwd}]
    /\ UNCHANGED <<healthy, dirs, uuids, response, logged>>

\* ---------------------------------------------- utils.py read_file_as_bytes
\* utils.py 23: aiofiles.open(file_path, "rb")
ReadOpen(r) ==
    /\ Me(r).pc = "open_output"
    /\ loop = Free
    /\ IF ~files[Me(r).output_path].exists
       THEN Raise(r, Exc("FileNotFoundError", "open"))
       ELSE \/ Suspend(r, [Me(r) EXCEPT !.pc = "read_output"])
            \/ Raise(r, Exc("PermissionError", "open"))
    /\ Touch(r, Me(r).output_path.dir)
    /\ UNCHANGED <<healthy, dirs, files, uuids, response, calls, logged>>

\* main.py 140-146
Response(content) ==
    [kind |-> "payload", status |-> 200, detail |-> "", cause |-> "",
     body |-> content, media_type |-> "video/mp4"]

\* utils.py 24 and main.py 136-146: file.read() returns the whole file and
\* the handler builds its response
ReadBytes(r) ==
    LET data == files[Me(r).output_path].bytes IN
    /\ Me(r).pc = "read_output"
    /\ loop = Free
    /\ \/ Step(r, [Me(r) EXCEPT !.compressed_content = data,
                                !.result = Response(data),
                                !.pc = "finally"])
       \/ Raise(r, Exc("OSError", "read"))
    /\ Touch(r, Me(r).output_path.dir)
    /\ UNCHANGED <<healthy, dirs, files, uuids, response, calls, logged>>

\* ------------------------------------------------------------ cancellation
SuspendPoints ==
    {"read_upload", "open_input", "write_input", "open_output", "read_output"}

\* asyncio throws CancelledError into the coroutine at the await it is
\* suspended in (main.py 113, 120, 136).  The worker thread behind an
\* aiofiles call is not stopped: its effect may or may not have happened.
Cancel(r) ==
    LET p == Path(Me(r).job_id, "input.mp4") IN
    /\ Me(r).pc \in SuspendPoints
    /\ loop = Free
    /\ Raise(r, CancelledError)
    /\ \/ UNCHANGED files
       \/ /\ Me(r).pc = "open_input"
          /\ Me(r).job_id \in dirs
          /\ files' = [files EXCEPT ![p] = File(<<>>, r)]
       \/ /\ Me(r).pc = "write_input"
          /\ files' = [files EXCEPT ![p] = File(Me(r).content, r)]
    /\ UNCHANGED <<healthy, dirs, uuids, response, calls, touched, logged>>

\* ------------------------------------------------------------------ finally
\* mutant: the files are unlinked, the directory is left behind
rmtree_files_only(d) ==
    [dirs |-> dirs,
     files |-> [p \in AllPaths |-> IF p.dir = d THEN NoFile ELSE files[p]]]

\* shutil.rmtree(job_dir), utils.py 30: the directory and all it holds
rmtree(d) ==
    [dirs |-> dirs \ {d},
     files |-> [p \in AllPaths |-> IF p.dir = d THEN NoFile ELSE files[p]]]

\* mutant: rmtree without the exists() test in front of it
cleanup_unguarded(job_id) ==
    IF job_id \notin dirs
    THEN {[dirs |-> dirs, files |-> files, err |-> "FileNotFoundError"]}
    ELSE {[dirs |-> rmtree(job_id).dirs, files |-> rmtree(job_id).files,
           err |-> ""],
          [dirs |-> dirs, files |-> files, err |-> "OSError"]}

\* utils.py 26-30: the outcomes of one call, each the disk it leaves and the
\* exception it raises ("" for none).  The body has no await: it is one step.
cleanup_temp_files(job_id) ==
    IF job_id \notin dirs
    THEN {[dirs |-> dirs, files |-> files, err |-> ""]}
    ELSE {[dirs |-> rmtree(job_id).dirs, files |-> rmtree(job_id).files,
           err |-> ""],
          [dirs |-> dirs, files |-> files, err |-> "OSError"]}

\* what the caller gets once the handler is left: the returned Response, or
\* the pending exception turned into an error response by the framework
Pending(f) ==
    IF f.exc = NoExc THEN f.result
    ELSE IF f.exc.type = "HTTPException"
        THEN [NoResponse EXCEPT !.kind = "error", !.status = f.exc.status,
                                !.detail = f.exc.detail, !.cause = f.exc.cause]
    ELSE [NoResponse EXCEPT !.kind = "cancelled"]

\* mutant: the cleanup is not wrapped in try/except, its exception replaces
\* the pending outcome
AfterCleanupUncaught(pending, err) ==
    IF err = "" THEN pending
    ELSE [NoResponse EXCEPT !.kind = "error", !.status = 500,
                            !.detail = "Internal Server Error", !.cause = err]

\* main.py 160-164: an exception of the cleanup is logged and dropped, the
\* pending outcome stands
AfterCleanup(pending, err) == pending

\* the handler has returned: its locals are gone; the request's form fields
\* and job id are kept for reference
Left(f) ==
    [NoFrame EXCEPT !.pc = "done", !.content_type = f.content_type,
                    !.upload = f.upload, !.target_size_mb = f.target_size_mb,
                    !.maintain_aspect_ratio = f.maintain_aspect_ratio,
                    !.job_id = f.job_id]

\* main.py 158-164 with utils.py 26-30: the cleanup of the finally block, and
\* the handler is left
Finally(r) ==
    LET f == Me(r)
        Leave(err) ==
            /\ response' = [response EXCEPT ![r] = AfterCleanup(Pending(f), err)]
            /\ logged' = [logged EXCEPT
                            ![r] = IF err = "" THEN @ ELSE Append(@, err)]
            /\ Suspend(r, Left(f))
    IN
    /\ f.pc = "finally"
    /\ loop = r
    /\ IF f.job_id = Unbound
       THEN /\ Leave("UnboundLocalError")
            /\ UNCHANGED <<dirs, files, touched>>
       ELSE /\ Touch(r, f.job_id)
            /\ \E o \in cleanup_temp_files(f.job_id) :
                  /\ dirs' = o.dirs
                  /\ files' = o.files
                  /\ Leave(o.err)
    /\ UNCHANGED <<healthy, uuids, calls>>

\* ------------------------------------------------------------------- health
\* main.py 166-168: GET /health is a coroutine of the same event loop; it is
\* run, and answered, when no other coroutine holds the loop
HealthCheck ==
    /\ loop = Free
    /\ healthy < MaxHealth
    /\ healthy' = healthy + 1
    /\ UNCHANGED <<frame, loop, dirs, files, uuids, response, calls, touched,
                   logged>>

\* ------------------------------------------------------------ specifications
Next ==
    \E r \in Requests :
        \/ Receive(r, ConcUploads, ConcTargets, ConcAspects)
        \/ CheckFormat(r)
        \/ ReadUpload(r)
        \/ SaveBlobMkdir(r)
        \/ SaveBlobOpen(r)
        \/ SaveBlobWrite(r)
        \/ CheckFfmpeg(r)
        \/ GetVideoInfo(r)
        \/ GetVideoDuration(r, ConcDurations)
        \/ PlanBitrate(r)
        \/ FirstPass(r)
        \/ SecondPass(r)
        \/ ReadOpen(r)
        \/ ReadBytes(r)
        \/ Cancel(r)
        \/ Finally(r)

Spec == Init /\ [][Next]_vars

\* one request, with target sizes and durations swept
NextPlan ==
    \E r \in PlanRequests :
        \/ Receive(r, PlanUploads, PlanTargets, BOOLEAN)
        \/ CheckFormat(r)
        \/ ReadUpload(r)
        \/ SaveBlobMkdir(r)
        \/ SaveBlobOpen(r)
        \/ SaveBlobWrite(r)
        \/ CheckFfmpeg(r)
        \/ GetVideoInfo(r)
        \/ GetVideoDuration(r, PlanDurations)
        \/ PlanBitrate(r)
        \/ FirstPass(r)
        \/ SecondPass(r)
        \/ ReadOpen(r)
        \/ ReadBytes(r)
        \/ Cancel(r)
        \/ Finally(r)

SpecPlan == Init /\ [][NextPlan]_vars

\* one compression request next to health checks
NextHealth ==
    \/ HealthCheck
    \/ \E r \in PlanRequests :
          \/ Receive(r, ConcUploads, ConcTargets, ConcAspects)
          \/ CheckFormat(r)
          \/ ReadUpload(r)
          \/ SaveBlobMkdir(r)
          \/ SaveBlobOpen(r)
          \/ SaveBlobWrite(r)
          \/ CheckFfmpeg(r)
          \/ GetVideoInfo(r)
          \/ GetVideoDuration(r, ConcDurations)
          \/ PlanBitrate(r)
          \/ FirstPass(r)
          \/ SecondPass(r)
          \/ ReadOpen(r)
          \/ ReadBytes(r)
          \/ Cancel(r)
          \/ Finally(r)

SpecHealth == Init /\ [][NextHealth]_vars

\* cleanup_temp_files on its own: handlers that are about to be cancelled,
\* with any job ids (also equal ones) over any disk, so that the function is
\* called for workspaces that exist, never existed or are already removed
InitCleanup ==
    /\ \E ids \in [Requests -> JobIds] :
          frame = [r \in Requests |->
                     [NoFrame EXCEPT !.pc = "read_upload",
                                     !.content_type = "video/mp4",
                                     !.upload = <<7>>,
                                     !.target_size_mb = Rat(8, 1),
                                     !.maintain_aspect_ratio = TRUE,
                                     !.job_id = ids[r]]]
    /\ loop = Free
    /\ dirs \in SUBSET JobIds
    /\ \E present \in SUBSET (dirs \X {"input.mp4", "output.mp4"}) :
          files = [p \in AllPaths |->
                     IF <<p.dir, p.name>> \in present
                     THEN File(<<7>>, p.dir) ELSE NoFile]
    /\ uuids = NumRequests
    /\ response = [r \in Requests |-> NoResponse]
    /\ calls = [r \in Requests |-> <<>>]
    /\ touched = [r \in Requests |-> {}]
    /\ logged = [r \in Requests |-> <<>>]
    /\ healthy = 0

NextCleanup == \E r \in Requests : Cancel(r) \/ Finally(r)

SpecCleanup == InitCleanup /\ [][NextCleanup]_vars

\* ==================================================================== claims
Done(r) == Me(r).pc = "done"
CleanupFailed(r) == \E i \in 1..Len(logged[r]) : logged[r][i] = "OSError"
PassCalls(r, n) ==
    {i \in 1..Len(calls[r]) : calls[r][i].prog = "ffmpeg" /\ calls[r][i].pass = n}
Pass1Failed(r) == \E i \in PassCalls(r, 1) : calls[r][i].exit # 0
Staged(r) == Len(calls[r]) > 0

C3_JobsIsolated ==
    \A a \in Requests :
        /\ Me(a).input_path # NoPath => Me(a).input_path.dir = Me(a).job_id
        /\ Me(a).output_path # NoPath => Me(a).output_path.dir = Me(a).job_id
        /\ Me(a).pc \in {"open_output", "read_output"} =>
              files[Me(a).output_path] = File(Encode(Me(a).content), a)
        /\ response[a].kind = "payload" =>
              response[a].body = Encode(Me(a).upload)
        /\ \A b \in Requests \ {a} :
              Me(b).job_id # Unbound =>
                 /\ Me(a).job_id # Me(b).job_id
                 /\ Me(b).job_id \notin touched[a]

\* two jobs with live workspaces at once, one of them about to read its output
C3_Witness ==
    \E a \in Requests : \E b \in Requests \ {a} :
        /\ Me(a).pc = "read_output"
        /\ Me(b).pc = "write_input"
        /\ {Me(a).job_id, Me(b).job_id} \subseteq dirs

\* C4: a payload is returned only for the complete output of a second pass
\* that exited 0; while the output is still to be read the workspace and the
\* complete output are in place (cleanup comes after the read); every other
\* outcome is an error or a cancellation with an empty body.
C4_NoPartialOutput ==
    \A r \in Requests :
        /\ Me(r).pc \in {"open_output", "read_output"} =>
              /\ Me(r).job_id \in dirs
              /\ files[Me(r).output_path].exists
              /\ files[Me(r).output_path].bytes = Encode(Me(r).content)
        /\ Me(r).result.kind = "payload" =>
              Me(r).result.body = Encode(Me(r).content)
        /\ Done(r) =>
              IF response[r].kind = "payload"
              THEN /\ response[r].body = Encode(Me(r).upload)
                   /\ \E i \in PassCalls(r, 2) : calls[r][i].exit = 0
                   /\ \A i \in 1..Len(calls[r]) : calls[r][i].exit = 0
              ELSE /\ response[r].kind \in {"error", "cancelled"}
                   /\ response[r].body = <<>>

\* a finished handler that returned the payload and whose workspace is removed
C4_Witness ==
    \E r \in Requests :
        /\ Done(r)
        /\ response[r].kind = "payload"
        /\ response[r].body = Encode(<<7>>)
        /\ Me(r).job_id \notin dirs

\* C5 as stated: an upload of a supported type with empty content is answered
\* with a 4xx status, and neither a workspace nor a subprocess was made.
C5_EmptyUploadClientError ==
    \A r \in Requests :
        /\ Done(r)
        /\ Me(r).content_type \in SUPPORTED_FORMATS
        /\ Len(Me(r).upload) = 0
        /\ response[r].kind # "cancelled"
        => /\ response[r].kind = "error"
           /\ response[r].status \in 400..499
           /\ touched[r] = {}
           /\ calls[r] = <<>>

\* C6: an upload of an unsupported type is answered with 400 before a job id
\* exists: no file operation, no subprocess, and the cleanup of the finally
\* block fails on the unassigned job id, is logged and leaves the 400 alone.
C6_Rejected400 ==
    \A r \in Requests :
        Me(r).content_type \notin SUPPORTED_FORMATS /\ Me(r).pc # "idle" =>
            /\ Me(r).job_id = Unbound
            /\ touched[r] = {}
            /\ calls[r] = <<>>
            /\ Done(r) =>
                  /\ response[r].kind = "error"
                  /\ response[r].status = 400
                  /\ response[r].detail = "Unsupported file type"
                  /\ logged[r] = <<"UnboundLocalError">>

\* the cleanup of a rejected request removes nothing, whatever is on disk
C6_CleanupRemovesNothing ==
    \A r \in Requests :
        Me(r).pc = "finally" /\ Me(r).job_id = Unbound /\ Done(r)'
        => dirs' = dirs /\ files' = files

\* C6, both parts: the rejection with 400 in every state, and the finally
\* block of a rejected request leaving the disk as it is in every step.
C6_UnsupportedTypeRejected ==
    []C6_Rejected400 /\ [][C6_CleanupRemovesNothing]_vars

\* a rejected request has finished while another job's workspace is on disk
C6_Witness ==
    \E r \in Requests :
        /\ Done(r)
        /\ Me(r).content_type \notin SUPPORTED_FORMATS
        /\ response[r].status = 400
        /\ dirs # {}

\* ------------------------------------------------------------ numeric claims
Planned(r) == Me(r).output_path # NoPath
EncoderCalls(r) == PassCalls(r, 1) \union PassCalls(r, 2)
ValidPlanInput(r) == Me(r).target_size_mb.num > 0 /\ Me(r).duration.num > 0

\* floor(target_size_mb * 8 * 1024 * 1024 / duration), for duration > 0
FloorBitrate(t, d) == (t.num * 8388608 * d.den) \div (t.den * d.num)

\* C7 as stated: with a duration of 0 or a target size <= 0 no encoder pass
\* is started, and a bitrate handed to the first pass is never zero or
\* negative.
C7_InvalidTargetNeverEncoded ==
    \A r \in Requests :
        /\ Me(r).pc = "first_pass" => ValidPlanInput(r)
        /\ \A i \in PassCalls(r, 1) : calls[r][i].b_v > 0

Halves(x) == (IF x.neg THEN 0 - 1 ELSE 1) * (2 * x.whole + x.tenths \div 5)

\* C9: every encoder invocation gets a maximum rate of exactly 1.5 times and
\* a buffer size of exactly 2 times the bitrate it gets, and both passes of a
\* job get the same three values.
C9_RateMultiples ==
    \A r \in Requests :
        /\ \A i \in EncoderCalls(r) :
              /\ calls[r][i].maxrate.tenths \in {0, 5}
              /\ Halves(calls[r][i].maxrate) = 3 * calls[r][i].b_v
              /\ calls[r][i].bufsize = 2 * calls[r][i].b_v
              /\ Planned(r) => calls[r][i].b_v = Me(r).target_bitrate
        /\ \A i \in PassCalls(r, 1) : \A j \in PassCalls(r, 2) :
              /\ calls[r][i].b_v = calls[r][j].b_v
              /\ calls[r][i].maxrate = calls[r][j].maxrate
              /\ calls[r][i].bufsize = calls[r][j].bufsize

\* both passes ran with an odd bitrate, so the maximum rate is no integer
C9_Witness ==
    \E r \in Requests :
        /\ PassCalls(r, 2) # {}
        /\ \E i \in PassCalls(r, 1) :
              calls[r][i].b_v > 0 /\ calls[r][i].maxrate.tenths = 5

Scenario60s8MB(r) ==
    /\ Planned(r)
    /\ Me(r).target_size_mb.num = 8 * Me(r).target_size_mb.den
    /\ Me(r).duration.num = 60 * Me(r).duration.den

\* C10 as stated: for 60 s and 8 MB the encoder gets the bitrate 1118481,
\* the maximum rate 1677721 and the buffer size 2236962, all integers.
C10_ScenarioIntegers ==
    \A r \in Requests :
        Scenario60s8MB(r) =>
            \A i \in EncoderCalls(r) :
                /\ calls[r][i].b_v = 1118481
                /\ calls[r][i].maxrate =
                       [neg |-> FALSE, whole |-> 1677721, tenths |-> 0]
                /\ calls[r][i].bufsize = 2236962

\* C10 amended: for 60 s and 8 MB the encoder gets the bitrate 1118481, the
\* maximum rate 1677721.5 (not an integer) and the buffer size 2236962.
C10_Scenario ==
    \A r \in Requests :
        Scenario60s8MB(r) =>
            /\ Me(r).target_bitrate = 1118481
            /\ \A i \in EncoderCalls(r) :
                  /\ calls[r][i].b_v = 1118481
                  /\ calls[r][i].maxrate =
                         [neg |-> FALSE, whole |-> 1677721, tenths |-> 5]
                  /\ calls[r][i].bufsize = 2236962

\* the scenario ran through both passes
C10_Witness ==
    \E r \in Requests :
        /\ Scenario60s8MB(r)
        /\ PassCalls(r, 1) # {}
        /\ PassCalls(r, 2) # {}

\* ------------------------------------------------------------- later claims
Encoding(r) == Me(r).pc \in {"first_pass", "second_pass"}

\* C11 as stated: while a job is inside its encode passes, a GET /health
\* that arrives can be answered before the encode has finished.
C11_HealthServedDuringEncode ==
    \A r \in Requests :
        Encoding(r) /\ healthy < MaxHealth => ENABLED HealthCheck

\* C12 as stated: every file a job writes lies in that job's workspace
\* directory, so once all handlers have finished (and no cleanup failed) the
\* disk holds no file and no workspace, as before the requests.
C12_NothingPersists ==
    /\ \A p \in AllPaths :
          files[p].exists => p.dir = Me(files[p].writer).job_id
    /\ (\A r \in Requests : Me(r).pc \in {"idle", "done"} /\ ~CleanupFailed(r))
          => /\ dirs = {}
             /\ \A p \in AllPaths : ~files[p].exists

\* one call of cleanup_temp_files: the finally block of request r
CleanupCall(r) == Me(r).pc = "finally" /\ Done(r)' /\ Me(r).job_id # Unbound
Workspace(d) == {p \in AllPaths : p.dir = d}

\* a call for a workspace that does not exist raises nothing and leaves the
\* disk as it is; a call that returns leaves no workspace and touches
\* nothing else
C13_CleanupStep ==
    \A r \in Requests :
        CleanupCall(r) =>
            LET d == Me(r).job_id IN
            /\ d \notin dirs =>
                  /\ logged'[r] = logged[r]
                  /\ dirs' = dirs
                  /\ files' = files
            /\ logged'[r] = logged[r] =>
                  /\ dirs' = dirs \ {d}
                  /\ \A p \in Workspace(d) : ~files'[p].exists
                  /\ \A p \in AllPaths \ Workspace(d) : files'[p] = files[p]

\* C13: cleanup_temp_files is idempotent: called for a workspace that never
\* existed or is already removed it raises nothing and changes nothing, and
\* a call that returned has removed the workspace, so that a second call for
\* the same job id is such a call; calls do not interleave (one step each).
C13_CleanupIdempotent == [][C13_CleanupStep]_vars

\* two calls for the same job id have both returned without raising
C13_Witness ==
    \E r \in Requests : \E q \in Requests \ {r} :
        /\ Done(r) /\ Done(q)
        /\ Me(r).job_id = Me(q).job_id
        /\ logged[r] = <<>> /\ logged[q] = <<>>
        /\ Me(r).job_id \notin dirs

\* C14: with maintain_aspect_ratio the -vf argument of both passes maps a
\* w x h source to (2*floor(w/2), 2*floor(h/2)): both even, not larger than
\* the source, less than 2 below it (1281x721 -> 1280x720); without it
\* neither pass gets a -vf argument.
C14_ScaleFilter ==
    \A r \in Requests : \A i \in EncoderCalls(r) :
        LET vf == calls[r][i].vf IN
        IF Me(r).maintain_aspect_ratio
        THEN /\ vf # ""
             /\ Scaled(vf, 1281, 721) = <<1280, 720>>
             /\ \A w \in 1..MaxDim : \A h \in 1..MaxDim :
                   LET out == Scaled(vf, w, h) IN
                   /\ out = <<2 * (w \div 2), 2 * (h \div 2)>>
                   /\ out[1] % 2 = 0 /\ out[2] % 2 = 0
                   /\ out[1] <= w /\ out[2] <= h
                   /\ out[1] > w - 2 /\ out[2] > h - 2
        ELSE vf = ""

\* both passes of a request with maintain_aspect_ratio have run
C14_Witness ==
    \E r \in Requests :
        /\ Me(r).maintain_aspect_ratio
        /\ PassCalls(r, 1) # {}
        /\ PassCalls(r, 2) # {}

\* the stages of a job in the order of the handler's text, and the programs
\* it runs
StageOrder ==
    <<"idle", "start", "read_upload", "mkdir", "open_input", "write_input",
      "check_ffmpeg", "get_video_info", "get_video_duration", "plan",
      "first_pass", "second_pass", "open_output", "read_output">>
Pipeline ==
    <<[prog |-> "ffmpeg -version", pass |-> 0], [prog |-> "ffprobe", pass |-> 0],
      [prog |-> "ffprobe", pass |-> 0], [prog |-> "ffmpeg", pass |-> 1],
      [prog |-> "ffmpeg", pass |-> 2]>>
StageIndex(pc) == CHOOSE i \in 1..Len(StageOrder) : StageOrder[i] = pc
Terminal(r) == Me(r).pc \in {"finally", "done"}
AllSucceeded(r, n) ==
    /\ Len(calls[r]) = n
    /\ \A i \in 1..n : calls[r][i].exit = 0

\* a job only moves to its next stage, or from any stage to its end
C15_StageStep ==
    \A r \in Requests :
        LET pc == Me(r).pc IN
        /\ Me(r).pc' # pc =>
              \/ /\ pc = "finally"
                 /\ Me(r).pc' = "done"
              \/ /\ ~Terminal(r)
                 /\ pc # "idle"
                 /\ Me(r).pc' = "finally"
              \/ /\ ~Terminal(r)
                 /\ StageIndex(pc) < Len(StageOrder)
                 /\ Me(r).pc' = StageOrder[StageIndex(pc) + 1]
        /\ Terminal(r) => calls'[r] = calls[r]
        /\ calls'[r] # calls[r] =>
              /\ Len(calls'[r]) = Len(calls[r]) + 1
              /\ SubSeq(calls'[r], 1, Len(calls[r])) = calls[r]

\* the programs run are a prefix of the pipeline, each after the success of
\* the one before; a job is at a stage only with every earlier stage done
C15_StageState ==
    \A r \in Requests :
        LET n == Len(calls[r])
            pc == Me(r).pc
            staged == files[Path(Me(r).job_id, "input.mp4")].exists
        IN
        /\ n <= Len(Pipeline)
        /\ \A i \in 1..n :
              /\ calls[r][i].prog = Pipeline[i].prog
              /\ calls[r][i].pass = Pipeline[i].pass
              /\ i < n => calls[r][i].exit = 0
        /\ (n > 0 /\ calls[r][n].exit # 0) =>
              /\ Terminal(r)
              /\ Me(r).result = NoResponse
              /\ response[r].kind # "payload"
        /\ (\E i \in 1..n : calls[r][i].prog = "ffprobe" /\ calls[r][i].exit # 0)
              => EncoderCalls(r) = {}
        /\ pc \in {"idle", "start", "read_upload", "mkdir", "open_input",
                   "write_input", "check_ffmpeg"} => n = 0
        /\ pc = "check_ffmpeg" => staged
        /\ pc = "get_video_info" => staged /\ AllSucceeded(r, 1)
        /\ pc = "get_video_duration" => staged /\ AllSucceeded(r, 2)
        /\ pc \in {"plan", "first_pass"} => staged /\ AllSucceeded(r, 3)
        /\ pc = "plan" => ~Planned(r)
        /\ pc = "first_pass" => Planned(r)
        /\ pc = "second_pass" => staged /\ Planned(r) /\ AllSucceeded(r, 4)
        /\ pc \in {"open_output", "read_output"} =>
              /\ AllSucceeded(r, 5)
              /\ files[Me(r).output_path].exists
        /\ (Me(r).result # NoResponse \/ response[r].kind = "payload") =>
              AllSucceeded(r, 5)

\* C15: a job passes its stages in the order stage input, probe, plan, pass
\* 1, pass 2, read output, respond, each after the success of the one before;
\* a failure ends the job and no later stage is started; a payload response
\* means that both passes exited 0.
C15_StrictPipeline == []C15_StageState /\ [][C15_StageStep]_vars

\* a job answered with the payload after all five programs ran
C15_Witness ==
    \E r \in Requests :
        Done(r) /\ response[r].kind = "payload" /\ AllSucceeded(r, 5)

\* a job ended by a failed probe
C15_WitnessFailed ==
    \E r \in Requests :
        /\ Done(r)
        /\ Len(calls[r]) = 2
        /\ calls[r][2].exit # 0
        /\ response[r].kind = "error"

\* the outcome the handler had reached when it entered its finally block
Primary(r, resp) ==
    IF Me(r).exc = NoExc
    THEN /\ resp.kind = "payload"
         /\ resp.status = 200
         /\ resp.body = Me(r).compressed_content
    ELSE IF Me(r).exc.type = "CancelledError"
    THEN resp.kind = "cancelled"
    ELSE /\ resp.kind = "error"
         /\ resp.status = Me(r).exc.status
         /\ resp.detail = Me(r).exc.detail
         /\ resp.cause = Me(r).exc.cause
         /\ resp.body = <<>>

\* the cleanup of request r raises in this step
CleanupRaises(r) == Me(r).pc = "finally" /\ logged'[r] # logged[r]

C16_CleanupStep ==
    \A r \in Requests :
        CleanupRaises(r) =>
            /\ Done(r)'
            /\ Primary(r, response'[r])
            /\ \E err \in {"OSError", "UnboundLocalError"} :
                  logged'[r] = Append(logged[r], err)

\* C16: when the cleanup of the finally block raises, the caller still gets
\* the outcome determined before it (the payload, or the error with its
\* status), and the cleanup error is only logged.
C16_CleanupNeverMasks == [][C16_CleanupStep]_vars

\* the payload was delivered although the cleanup raised
C16_Witness ==
    \E r \in Requests :
        Done(r) /\ response[r].kind = "payload" /\ CleanupFailed(r)

\* the runs of one program by request r, and the message of its failure
Runs(r, prog, pass, show) ==
    {i \in 1..Len(calls[r]) : /\ calls[r][i].prog = prog
                              /\ calls[r][i].pass = pass
                              /\ calls[r][i].show_entries = show}
Engine ==
    {<<"ffprobe", 0, "stream,format", "Failed to get video information">>,
     <<"ffprobe", 0, "format=duration", "Failed to get video duration">>,
     <<"ffmpeg", 1, "", "First pass encoding failed">>,
     <<"ffmpeg", 2, "", "Second pass encoding failed">>}
EngineFailed(r, e) ==
    \E i \in Runs(r, e[1], e[2], e[3]) : calls[r][i].exit # 0

\* C17: in one request each probe and each encoder pass is started at most
\* once, and a non-zero exit of one of them gives a 5xx response that
\* carries the failure's message.
C17_NoRetryServerError ==
    \A r \in Requests : \A e \in Engine :
        /\ Cardinality(Runs(r, e[1], e[2], e[3])) <= 1
        /\ EngineFailed(r, e) =>
              /\ Terminal(r)
              /\ Me(r).pc = "finally" =>
                    /\ Me(r).exc.status \in 500..599
                    /\ Me(r).exc.cause = e[4]
              /\ Done(r) =>
                    /\ response[r].kind = "error"
                    /\ response[r].status \in 500..599
                    /\ response[r].cause = e[4]

\* a request answered after its second pass failed
C17_Witness ==
    \E r \in Requests :
        /\ Done(r)
        /\ EngineFailed(r, <<"ffmpeg", 2, "", "Second pass encoding failed">>)
        /\ response[r].status = 500

\* between its two passes a job holds the event loop and the pass log is its
\* own; the second pass reads the log its own first pass wrote
C18_OwnStatsState ==
    \A r \in Requests :
        /\ Me(r).pc = "second_pass" =>
              /\ loop = r
              /\ files[PassLog].exists
              /\ files[PassLog].writer = r
        /\ \A i \in PassCalls(r, 2) : calls[r][i].stats = r

\* while a job is between its passes no other job runs a program or writes
\* the pass log
C18_OwnStatsStep ==
    \A r \in Requests :
        Me(r).pc = "second_pass" =>
            /\ \A q \in Requests \ {r} : calls'[q] = calls[q]
            /\ files'[PassLog] = files[PassLog]

\* C18: for jobs handled concurrently by one process, the second pass of a
\* job reads the statistics its own first pass wrote: between the start of
\* its first pass and the end of its second no other job's first pass runs,
\* the two passes being one step of the event loop.
C18_OwnStatistics == []C18_OwnStatsState /\ [][C18_OwnStatsStep]_vars

\* a job ran both passes while another, already encoded, was still waiting
\* for its output to be read
C18_Witness ==
    \E r \in Requests : \E q \in Requests \ {r} :
        /\ Me(q).pc \in {"open_output", "read_output"}
        /\ PassCalls(q, 2) # {}
        /\ PassCalls(r, 2) # {}
        /\ files[PassLog].writer = r

InputOf(r) == Path(Me(r).job_id, "input.mp4")
OutputOf(r) == Path(Me(r).job_id, "output.mp4")

\* C19: the job id compress_video derives from the input file's parent
\* directory is the id the endpoint generated, so the output is written to
\* TEMP_DIR/<job_id>/output.mp4 next to the staged input, and the endpoint's
\* cleanup by its own id removes the input and the output.
C19_DerivedJobId ==
    \A r \in Requests :
        /\ Me(r).input_path # NoPath =>
              /\ Me(r).input_path = InputOf(r)
              /\ ParentName(Me(r).input_path) = Me(r).job_id
        /\ Planned(r) =>
              /\ Me(r).output_path = OutputOf(r)
              /\ Me(r).output_path.dir = Me(r).input_path.dir
        /\ \A i \in PassCalls(r, 2) :
              /\ calls[r][i].input = InputOf(r)
              /\ calls[r][i].out = OutputOf(r)
        /\ \A p \in AllPaths :
              (files[p].exists /\ files[p].writer = r /\ p.dir # Cwd)
                 => p \in {InputOf(r), OutputOf(r)}
        /\ (Done(r) /\ ~CleanupFailed(r) /\ Me(r).job_id # Unbound) =>
              /\ Me(r).job_id \notin dirs
              /\ ~files[InputOf(r)].exists
              /\ ~files[OutputOf(r)].exists

\* a job whose second pass wrote its output has been cleaned up
C19_Witness ==
    \E r \in Requests :
        /\ Done(r)
        /\ ~CleanupFailed(r)
        /\ \E i \in PassCalls(r, 2) : calls[r][i].exit = 0
        /\ ~files[OutputOf(r)].exists

====
